---- MODULE Spec2Model ----
(***************************************************************************)
(* Model of the STM32F4 CDC-ACM transport of HWI:                          *)
(*   hwilib/devices/trezorlib/transport/cdcacm.py  (CDCACMHandle)          *)
(*   hwilib/devices/stm32f4.py                     (enumerate)             *)
(***************************************************************************)
EXTENDS Integers, Sequences, FiniteSets, TLC

(***************************************************************************)
(* Bounds of the model.                                                    *)
(***************************************************************************)
\* longest list of interfaces in an active configuration
MaxIfaces == 2
\* number of write_chunk calls made on one handle
MaxWrites == 2
\* number of transports returned by enumerate_devices()
MaxDevs == 2
\* number of close() calls made on one handle
MaxCloses == 2
\* number of write_chunk calls of a session that may be closed from outside
SessionWrites == 1
\* number of devices on the USB bus
MaxBus == 2
\* number of configurations of a device
MaxConfs == 2
\* number of find_debug() calls
MaxDebug == 1
\* number of chunks of a frame
FrameChunks == 2

(***************************************************************************)
(* Program constants.                                                      *)
(***************************************************************************)
\* the chunk size tested by write_chunk and read_chunk
ChunkSize == 64
\* usb.CLASS_COMM and usb.CLASS_DATA (bInterfaceClass values)
CLASS_COMM == 2
CLASS_DATA == 10
\* bInterfaceClass of the mass storage interface the device also has
CLASS_MASS_STORAGE == 8
\* usb.util.ENDPOINT_IN, the direction bit of bEndpointAddress
ENDPOINT_IN == 128

\* the interface and endpoint numbers a handle is constructed with
INTERFACE == 0
ENDPOINT == 1
DEBUG_INTERFACE == 1
DEBUG_ENDPOINT == 2

\* Python's None (handles are pairs <<interface index, bEndpointAddress>>)
None == <<>>

VARIABLES
    \* ---- the USB device behind a CDCACMHandle
    config,       \* interfaces of the active configuration, in order
    kdriver,      \* positions of the interfaces a kernel driver is bound to
    wire,         \* chunks the OUT endpoint accepted; the device loops them back
    nread,        \* number of bytes the IN endpoint has handed out so far
    epWrites,     \* number of write() calls made on the OUT endpoint
    lastEpWrite,  \* argument of the last write() on the OUT endpoint
    ctrl,         \* last line-state / line-coding control transfer attempt
    host,         \* what the host's USB stack answers to detach and ctrl_transfer
    overshoot,    \* a read() of the current read_chunk returned more than asked
    pieces,       \* read() calls of the current read_chunk that returned bytes (0, 1, many)
    sawEmpty,     \* a read() of the current read_chunk returned no bytes
    \* ---- CDCACMHandle
    readhandle,   \* self.readhandle
    writehandle,  \* self.writehandle
    hpc,          \* "idle", or "reading" inside the loop of read_chunk
    chunk,        \* local chunk of read_chunk
    rdBase,       \* value of nread when the current read_chunk was called
    nWrites,      \* write_chunk calls made so far
    wquota,       \* write_chunk calls the caller makes at most
    res           \* the last call on the handle and how it ended

chanVars == <<config, kdriver, wire, nread, epWrites, lastEpWrite, ctrl, host,
              overshoot, pieces, sawEmpty, readhandle, writehandle, hpc, chunk, rdBase,
              nWrites, wquota, res>>

VARIABLES
    \* ---- enumerate(password) of stm32f4.py
    devs,          \* the transports enumerate_devices() returned
    password,      \* the argument of enumerate
    idx,           \* number of transports the for loop has taken
    epc,           \* where enumerate is: "idle", "loop", "open", "classify",
                   \* "close", "append", "done" or "raised"
    d_data,        \* d_data of the current pass
    client,        \* client of the current pass: None or the device's number
    features,      \* client.client.features of the current pass
    results,       \* results
    \* ---- what happened, for the properties
    openTransports, \* devices whose transport was opened and never closed
    closeCalls,    \* client.close() calls of the current pass
    pubkeyCalls,   \* get_pubkey_at_path calls of the current pass
    log            \* per transport taken: the vendor string it reported
                   \* ("match", "mismatch" or "unread") and what was raised

enumVars == <<devs, password, idx, epc, d_data, client, features, results,
              openTransports, closeCalls, pubkeyCalls, log>>

VARIABLES
    \* ---- a session on one handle, with a second thread that may call close()
    closes,        \* close() calls made on the handle so far
    closedInFlight, \* close() was called while the current read_chunk was in its loop
    slept          \* parity of the time.sleep calls of the current read_chunk

sessVars == <<closes, closedInFlight, slept>>

VARIABLES
    \* ---- CDCACMTransport objects on one device
    usbBus,        \* the devices on the USB bus, in the order find() sees them
    transports,    \* the CDCACMTransport objects made so far
    handles,       \* the CDCACMHandle objects made so far
    touched,       \* devices on which a USB operation was made
    sent,          \* the write() calls on OUT endpoints, in order: by which
                   \* transport, through which handle, which chunk of its frame
    framePos,      \* per transport: chunks of its frame written so far
    tpc            \* "boot" before enumerate() was called, then "ready"

tVars == <<usbBus, transports, handles, touched, sent, framePos, tpc>>

vars == <<chanVars, enumVars, sessVars, tVars>>

(***************************************************************************)
(* Helpers.                                                                *)
(***************************************************************************)
Min(a, b) == IF a < b THEN a ELSE b

RECURSIVE Flatten(_)
Flatten(ss) == IF ss = <<>> THEN <<>> ELSE Head(ss) \o Flatten(Tail(ss))

\* all sequences over S of length at most n
SeqsUpTo(S, n) == UNION {[1..k -> S] : k \in 0..n}

(***************************************************************************)
(* The device: its configuration and its endpoints.                        *)
(***************************************************************************)
\* bEndpointAddress values: endpoint 1 OUT, endpoint 1 IN
EndpointAddrs == {1, 129}

\* the endpoint lists of a data interface: none, one, or one of each direction
EndpointLists == {e \in SeqsUpTo(EndpointAddrs, 2) : Len(e) = 2 => e[1] # e[2]}

InterfaceKinds ==
    {[cls |-> CLASS_COMM, eps |-> <<>>], [cls |-> CLASS_MASS_STORAGE, eps |-> <<>>]}
    \cup {[cls |-> CLASS_DATA, eps |-> e] : e \in EndpointLists}

Configs == SeqsUpTo(InterfaceKinds, MaxIfaces)

\* the layout of the STM32F4 device: a CDC function beside mass storage
StdConfig == <<[cls |-> CLASS_MASS_STORAGE, eps |-> <<>>],
               [cls |-> CLASS_COMM, eps |-> <<>>],
               [cls |-> CLASS_DATA, eps |-> <<129, 1>>]>>

\* the bytes a caller passes to write_chunk
Pattern(k, n) == [j \in 1..n |-> (k * j) % 256]

Data == {Pattern(k, n) : k \in {1, 2},
                         n \in {0, ChunkSize - 1, ChunkSize, ChunkSize + 1}}

\* usb.util.endpoint_direction(address)
endpoint_direction(address) == ((address \div 128) % 2) * 128

\* position of the first interface of class cls, 0 when there is none
RECURSIVE FirstOfClass(_, _, _)
FirstOfClass(cfg, cls, i) ==
    IF i > Len(cfg) THEN 0
    ELSE IF cfg[i].cls = cls THEN i
    ELSE FirstOfClass(cfg, cls, i + 1)

HasClass(cfg, cls) == FirstOfClass(cfg, cls, 1) # 0

\* Interface.index of the interface at position p
IfaceIndex(p) == p - 1

(***************************************************************************)
(* CDCACMHandle                                                            *)
(***************************************************************************)
\* the result record of a call on the handle: arg is the chunk passed to
\* write_chunk, value the chunk returned by read_chunk
Result(op, status, arg, value) ==
    [op |-> op, status |-> status, arg |-> arg, value |-> value]

NoCtrl == [index |-> -1, outcome |-> "none"]

\* the variable `control` after the first loop of open(): the communications
\* interface when the loop found one, else the last interface the loop saw,
\* and 0 when the loop body never ran and the variable is unbound
ControlAfterLoop(cfg) ==
    IF HasClass(cfg, CLASS_COMM) THEN FirstOfClass(cfg, CLASS_COMM, 1)
    ELSE Len(cfg)

\* the loop over cdcdata.endpoints(): an IN endpoint becomes the read handle,
\* any other endpoint the write handle; hs is <<readhandle, writehandle>>
RECURSIVE AssignEndpoints(_, _, _)
AssignEndpoints(hs, p, eps) ==
    IF eps = <<>> THEN hs
    ELSE IF endpoint_direction(Head(eps)) = ENDPOINT_IN
         THEN AssignEndpoints(<<<<IfaceIndex(p), Head(eps)>>, hs[2]>>, p, Tail(eps))
         ELSE AssignEndpoints(<<hs[1], <<IfaceIndex(p), Head(eps)>>>>, p, Tail(eps))

\* the check after the two loops of open()
HandlesMissing(rh, wh) == rh = None \/ wh = None

\* (variant: a failed control transfer is raised to the caller of open())
CtrlFailureRaised(outcome) == IF outcome = "ok" THEN "ok" ELSE "USBError"

\* the try/except around the two control transfers: the bare `except: pass`
\* swallows whatever they raise, and open() returns normally
CtrlFailureSwallowed(outcome) == "ok"

\* open(), given what the USB stack answers: env.ctlDetach and env.dataDetach
\* (does detach_kernel_driver succeed) and env.xfer (the control transfers)
OpenResult(cfg, kd, rh, wh, env) ==
    LET ci      == FirstOfClass(cfg, CLASS_COMM, 1)
        control == ControlAfterLoop(cfg)
        di      == FirstOfClass(cfg, CLASS_DATA, 1)
        ctlBound == ci # 0 /\ ci \in kd
        kd1     == IF ctlBound THEN kd \ {ci} ELSE kd
        dataBound == di # 0 /\ di \in kd1
        kd2     == IF dataBound THEN kd1 \ {di} ELSE kd1
        hs      == IF di = 0 THEN <<rh, wh>>
                   ELSE AssignEndpoints(<<rh, wh>>, di, cfg[di].eps)
    IN  IF ctlBound /\ ~env.ctlDetach
        THEN [status |-> "USBError", kd |-> kd, rh |-> rh, wh |-> wh, ctrl |-> NoCtrl]
        ELSE IF dataBound /\ ~env.dataDetach
        THEN [status |-> "USBError", kd |-> kd1, rh |-> rh, wh |-> wh, ctrl |-> NoCtrl]
        ELSE IF HandlesMissing(hs[1], hs[2])
        THEN [status |-> "IOError", kd |-> kd2, rh |-> hs[1], wh |-> hs[2],
              ctrl |-> NoCtrl]
        ELSE LET c == IF control = 0
                      THEN [index |-> -1, outcome |-> "NameError"]
                      ELSE [index |-> IfaceIndex(control), outcome |-> env.xfer]
             IN  [status |-> CtrlFailureSwallowed(c.outcome), kd |-> kd2,
                  rh |-> hs[1], wh |-> hs[2], ctrl |-> c]

\* the hosts: can kernel drivers be detached, and what do the two control
\* transfers do (one platform does not support them)
Hosts == [ctlDetach : BOOLEAN, dataDetach : BOOLEAN,
          xfer : {"ok", "line_state_failed", "line_coding_failed"}]

\* CDCACMHandle.open
Open ==
    /\ hpc = "idle"
    /\ LET r == OpenResult(config, kdriver, readhandle, writehandle, host)
       IN  /\ kdriver' = r.kd
           /\ readhandle' = r.rh
           /\ writehandle' = r.wh
           /\ ctrl' = IF r.ctrl = NoCtrl THEN ctrl ELSE r.ctrl
           /\ res' = Result("open", r.status, <<>>, <<>>)
    /\ UNCHANGED <<config, wire, nread, epWrites, lastEpWrite, host, overshoot,
                   pieces, sawEmpty, hpc, chunk, rdBase, nWrites, wquota>>

\* (variant: close() gives up the endpoints, and fails when there are none to
\* give up)
CloseReleasingOnce(rh, wh) ==
    [status |-> IF rh = None /\ wh = None THEN "USBError" ELSE "ok",
     rh |-> None, wh |-> None]

\* close(): the body is `pass`, the fields stay as they are
CloseResult(rh, wh) == [status |-> "ok", rh |-> rh, wh |-> wh]

\* CDCACMHandle.close
Close ==
    /\ hpc = "idle"
    /\ LET r == CloseResult(readhandle, writehandle)
       IN  /\ readhandle' = r.rh
           /\ writehandle' = r.wh
           /\ res' = Result("close", r.status, <<>>, <<>>)
    /\ UNCHANGED <<config, kdriver, wire, nread, epWrites, lastEpWrite, ctrl,
                   host, overshoot, pieces, sawEmpty, hpc, chunk, rdBase,
                   nWrites, wquota>>

\* (variant: the size test lets shorter chunks through)
ChunkSizeAtMost(c) == Len(c) <= ChunkSize

\* the size test of write_chunk
ChunkSizeOk(c) == Len(c) = ChunkSize

\* what write_chunk does with its argument: the assertion, the size test, the write
WriteChunkOutcome(wh, c) ==
    IF wh = None THEN "AssertionError"
    ELSE IF ~ChunkSizeOk(c) THEN "TransportException"
    ELSE "write"

\* CDCACMHandle.write_chunk; the endpoint's write() either takes the bytes or
\* fails with a USB error
WriteChunk ==
    /\ hpc = "idle"
    /\ nWrites < wquota
    /\ nWrites' = nWrites + 1
    /\ \E d \in Data, accepted \in BOOLEAN :
          LET o == WriteChunkOutcome(writehandle, d)
          IN  IF o = "write"
              THEN /\ epWrites' = epWrites + 1
                   /\ lastEpWrite' = d
                   /\ wire' = IF accepted THEN Append(wire, d) ELSE wire
                   /\ res' = Result("write_chunk",
                                    IF accepted THEN "ok" ELSE "USBError",
                                    d, <<>>)
              ELSE /\ res' = Result("write_chunk", o, d, <<>>)
                   /\ UNCHANGED <<epWrites, lastEpWrite, wire>>
    /\ UNCHANGED <<config, kdriver, nread, ctrl, host, overshoot, pieces,
                   sawEmpty, readhandle, writehandle, hpc, chunk, rdBase, wquota>>

\* CDCACMHandle.read_chunk up to the loop: the assertion and chunk = b''
ReadChunkCall ==
    /\ hpc = "idle"
    /\ IF readhandle = None
       THEN /\ res' = Result("read_chunk", "AssertionError", <<>>, <<>>)
            /\ UNCHANGED <<hpc, chunk, rdBase, overshoot, pieces, sawEmpty>>
       ELSE /\ hpc' = "reading"
            /\ chunk' = <<>>
            /\ rdBase' = nread
            /\ overshoot' = FALSE
            /\ pieces' = 0
            /\ sawEmpty' = FALSE
            /\ res' = Result("read_chunk", "pending", <<>>, <<>>)
    /\ UNCHANGED <<config, kdriver, wire, nread, epWrites, lastEpWrite, ctrl,
                   host, readhandle, writehandle, nWrites, wquota>>

\* (variant: the new piece is put in front of what was collected)
AccumulateInFront(c, cc) == cc \o c

\* chunk += chunkchunk
Accumulate(c, cc) == c \o cc

\* (variant: anything of 64 bytes or more ends the loop normally)
ReadBranchNoRaise(c) == IF Len(c) < ChunkSize THEN "sleep" ELSE "break"

\* the three branches after the accumulation
ReadBranch(c) ==
    IF Len(c) < ChunkSize THEN "sleep"
    ELSE IF Len(c) = ChunkSize THEN "break"
    ELSE "raise"

\* the bytes the device still holds for the IN endpoint
Pending == LET s == Flatten(wire) IN SubSeq(s, nread + 1, Len(s))

\* the sizes of the pieces the IN endpoint hands out when `need` bytes are
\* asked for and `avail` are pending: nothing, a few bytes, all that is asked
\* for, or one byte more than that
PieceSizes(need, avail) == {k \in {0, 7, 20, need, need + 1} : k <= avail}

\* one pass of the loop of read_chunk: the endpoint's read() hands out the next
\* k pending bytes or fails (k = -1); the function returns or raises when the
\* loop ends, and its locals are gone
ReadChunkStep ==
    /\ hpc = "reading"
    /\ LET pending == Pending
           need    == ChunkSize - Len(chunk)
       IN  \E k \in PieceSizes(need, Len(pending)) \cup {-1} :
             IF k = -1
             THEN /\ hpc' = "idle"
                  /\ chunk' = <<>>
                  /\ res' = Result("read_chunk", "USBError", <<>>, <<>>)
                  /\ UNCHANGED <<nread, overshoot, pieces, sawEmpty>>
             ELSE LET c == Accumulate(chunk, SubSeq(pending, 1, k))
                      b == ReadBranch(c)
                  IN  /\ nread' = nread + k
                      /\ overshoot' = (overshoot \/ k > need)
                      /\ pieces' = IF k > 0 THEN Min(pieces + 1, 2) ELSE pieces
                      /\ sawEmpty' = (sawEmpty \/ k = 0)
                      /\ hpc' = IF b = "sleep" THEN "reading" ELSE "idle"
                      /\ chunk' = IF b = "sleep" THEN c ELSE <<>>
                      /\ res' = IF b = "sleep" THEN res
                                ELSE IF b = "break"
                                     THEN Result("read_chunk", "ok", <<>>, c)
                                     ELSE Result("read_chunk", "TransportException",
                                                 <<>>, <<>>)
    /\ UNCHANGED <<config, kdriver, wire, epWrites, lastEpWrite, ctrl, host,
                   readhandle, writehandle, rdBase, nWrites, wquota>>

\* the positions a kernel driver may be bound to: the CDC interfaces
CdcPositions(cfg) ==
    {p \in 1..Len(cfg) : cfg[p].cls \in {CLASS_COMM, CLASS_DATA}}

\* a host on which every detach and control transfer succeeds
GoodHost == [ctlDetach |-> TRUE, dataDetach |-> TRUE, xfer |-> "ok"]

\* the devices and hosts a handle is made for: any configuration on any host
\* (no chunk is written to these), or the STM32F4 layout on a good host
Plugged ==
    /\ \/ config \in Configs /\ host \in Hosts /\ wquota = 0
       \/ config = StdConfig /\ host = GoodHost /\ wquota = MaxWrites
    /\ kdriver \in {{}, CdcPositions(config)}

\* CDCACMHandle.__init__
InitHandle ==
    /\ overshoot = FALSE
    /\ pieces = 0
    /\ sawEmpty = FALSE
    /\ wire = <<>>
    /\ nread = 0
    /\ epWrites = 0
    /\ lastEpWrite = <<>>
    /\ ctrl = NoCtrl
    /\ readhandle = None
    /\ writehandle = None
    /\ hpc = "idle"
    /\ chunk = <<>>
    /\ rdBase = 0
    /\ nWrites = 0
    /\ res = Result("init", "ok", <<>>, <<>>)

(***************************************************************************)
(* enumerate(password) of stm32f4.py and what it calls.                    *)
(***************************************************************************)
\* text as a sequence of characters
STMicroelectronics ==
    <<"S", "T", "M", "i", "c", "r", "o", "e", "l", "e", "c", "t", "r", "o",
      "n", "i", "c", "s">>

\* Python's `needle in haystack` on strings
Contains(haystack, needle) ==
    \E k \in 0..(Len(haystack) - Len(needle)) :
        SubSeq(haystack, k + 1, k + Len(needle)) = needle

\* the vendor strings a device's features report
Vendors ==
    { STMicroelectronics,
      <<"(", "c", ")", " ">> \o STMicroelectronics \o <<" ", "N", "V">>,
      SubSeq(STMicroelectronics, 1, 7),
      <<"k", "e", "e", "p", "k", "e", "y", ".", "c", "o", "m">>,
      <<>> }

Features == [vendor : Vendors, pin_protection : BOOLEAN, pin_cached : BOOLEAN,
             passphrase_protection : BOOLEAN, initialized : BOOLEAN]

NoFeatures == [vendor |-> <<>>, pin_protection |-> FALSE, pin_cached |-> FALSE,
               passphrase_protection |-> FALSE, initialized |-> FALSE]

\* the vendor ids get_usb_vendor_id() returns: STMicroelectronics, the id -1
\* of a transport without USB identity, and another vendor's
STM32F4_VENDOR_IDS == {1155}

VendorIds == {1155, -1, 4617}

Passwords == {"", "hunter2"}

UdpPath == "udp:127.0.0.1:21324"

Digit == <<"0", "1", "2", "3", "4", "5", "6", "7", "8", "9">>

\* "%03i" % n for 0 <= n < 1000
Pad3(n) == Digit[(n \div 100) + 1] \o Digit[((n \div 10) % 10) + 1] \o Digit[(n % 10) + 1]

\* CDCACMTransport.get_path
get_path(bus, address) == "cdcacm" \o ":" \o Pad3(bus) \o ":" \o Pad3(address)

\* the transports: the k-th sits on bus 1 at address 3 + k; one with vendor id
\* -1 is the simulator's UDP transport
Transports == [vid : VendorIds]

PathOf(k) == IF devs[k].vid = -1 THEN UdpPath ELSE get_path(1, 3 + k)

\* the vendor id filter of the for loop
VendorIdAccepted(vid) == vid \in (STM32F4_VENDOR_IDS \cup {-1})

\* exceptions
NoExc == [type |-> "none", msg |-> "none"]
LockedExc ==
    [type |-> "DeviceNotReadyError",
     msg |-> "STM32F4 is locked. Unlock by using 'promptpin' and then 'sendpin'."]
PassphraseExc ==
    [type |-> "DeviceNotReadyError",
     msg |-> "Passphrase needs to be specified before the fingerprint information can be retrieved"]
UsbExc == [type |-> "USBError", msg |-> "usb"]

\* handle_errors(msg, result): on leaving the with block with an exception, the
\* exception is swallowed and written into result as error and code
HandleErrors(d, exc) ==
    IF exc.type = "none" THEN d
    ELSE ("error" :> exc.msg) @@
         ("code" :> IF exc.type = "DeviceNotReadyError" THEN "DEVICE_NOT_READY"
                    ELSE "UNKNOWN_ERROR") @@ d

\* d_data as set up before the with block
NewRecord(path) == [type |-> "stm32f4", model |-> "stm32f4", path |-> path]

\* master_xpub of the device with number k under a passphrase, and
\* get_xpub_fingerprint_hex of it
Xpub(k, pw) == <<"xpub", k, pw>>
get_xpub_fingerprint_hex(xpub) == <<"fingerprint", xpub[2], xpub[3]>>

\* (variant: the `not` before pin_cached is lost)
NeedsPinWhenCached(f) == f.pin_protection /\ f.pin_cached

\* needs_pin_sent as enumerate computes it
NeedsPin(f) == f.pin_protection /\ ~f.pin_cached

\* (variant: the vendor string must equal the token)
VendorEquals(f) == f.vendor = STMicroelectronics

\* the vendor test of the with block
VendorMatches(f) == Contains(f.vendor, STMicroelectronics)

\* (variant: needs_passphrase_sent is left as it was)
FingerprintedFlagKept(d, k, pw) ==
    ("fingerprint" :> get_xpub_fingerprint_hex(Xpub(k, pw))) @@ d

\* the record after the master xpub was fetched: the fingerprint is set and
\* needs_passphrase_sent is cleared
Fingerprinted(d, k, pw) ==
    [("fingerprint" :> get_xpub_fingerprint_hex(Xpub(k, pw))) @@ d
        EXCEPT !.needs_passphrase_sent = FALSE]

\* (variant: the code of the uninitialized device is not recorded)
NotInitializedErrorOnly(d) == ("error" :> "Not initialized") @@ d

\* the else branch: the record of a device that is not initialized
NotInitialized(d) ==
    ("error" :> "Not initialized") @@ ("code" :> "DEVICE_NOT_INITIALIZED") @@ d

\* the body of the with block after init_device, for the device with number
\* k: the record, the exception that ends the body (if any), whether the body
\* ended in `continue`, and the number of get_pubkey_at_path calls made;
\* fetchOk says whether get_pubkey_at_path answers or fails
Classify(d, f, pw, k, fetchOk) ==
    IF ~VendorMatches(f)
    THEN [d |-> d, exc |-> NoExc, skip |-> TRUE, pubkey |-> 0]
    ELSE
    LET d1 == IF d.path = UdpPath THEN [d EXCEPT !.model = "stm32f4_simulator"] ELSE d
        d2 == ("needs_pin_sent" :> NeedsPin(f)) @@
              ("needs_passphrase_sent" :> f.passphrase_protection) @@ d1
    IN  IF d2.needs_pin_sent
        THEN [d |-> d2, exc |-> LockedExc, skip |-> FALSE, pubkey |-> 0]
        ELSE IF d2.needs_passphrase_sent /\ pw = ""
        THEN [d |-> d2, exc |-> PassphraseExc, skip |-> FALSE, pubkey |-> 0]
        ELSE IF f.initialized
        THEN IF fetchOk
             THEN [d |-> Fingerprinted(d2, k, pw),
                   exc |-> NoExc, skip |-> FALSE, pubkey |-> 1]
             ELSE [d |-> d2, exc |-> UsbExc, skip |-> FALSE, pubkey |-> 1]
        ELSE [d |-> NotInitialized(d2), exc |-> NoExc, skip |-> FALSE, pubkey |-> 0]

\* (variant: an exception raised in the body leaves enumerate)
AfterWithPropagates(exc, skip) ==
    IF exc # NoExc THEN "raised" ELSE IF skip THEN "loop" ELSE "close"

\* where control goes when the with block is left: `continue` goes back to the
\* for loop, everything else (an exception included, handle_errors having
\* swallowed it) goes on to `if client:`
AfterWith(exc, skip) == IF skip THEN "loop" ELSE "close"

\* enumerate(password) is called
CallEnumerate ==
    /\ epc = "idle"
    /\ devs' \in SeqsUpTo(Transports, MaxDevs)
    /\ password' \in Passwords
    /\ epc' = "loop"
    /\ UNCHANGED <<idx, d_data, client, features, results, openTransports,
                   closeCalls, pubkeyCalls, log>>

\* the for loop takes the next transport: the vendor id filter, then d_data
\* and client = None
NextDevice ==
    /\ epc = "loop"
    /\ idx < Len(devs)
    /\ idx' = idx + 1
    /\ IF VendorIdAccepted(devs[idx + 1].vid)
       THEN /\ d_data' = NewRecord(PathOf(idx + 1))
            /\ client' = None
            /\ epc' = "open"
            /\ closeCalls' = 0
            /\ pubkeyCalls' = 0
            /\ UNCHANGED log
       ELSE /\ log' = Append(log, [vendor |-> "unread", raised |-> "none"])
            /\ UNCHANGED <<d_data, client, epc, closeCalls, pubkeyCalls>>
    /\ features' = NoFeatures
    /\ UNCHANGED <<devs, password, results, openTransports>>

\* how STM32F4Client(path, password) and init_device() can end: the
\* constructor fails, the transport fails to open, the exchange of the
\* features fails after it was opened, or the features arrive
ClientOutcomes == {"constructor failed", "open failed", "exchange failed", "ok"}

\* init_device() opens the client's transport before it talks to the device
OpensTransport(o) == o \in {"exchange failed", "ok"}

\* client.close() closes the transport of the device with number k
ClientClose(open, k) == open \ {k}

\* client = STM32F4Client(path, password); client.client.init_device()
OpenClient ==
    /\ epc = "open"
    /\ \E o \in ClientOutcomes :
          /\ client' = IF o = "constructor failed" THEN None ELSE <<idx>>
          /\ openTransports' = IF OpensTransport(o)
                               THEN openTransports \cup {idx} ELSE openTransports
          /\ IF o = "ok"
             THEN /\ features' \in Features
                  /\ epc' = "classify"
                  /\ UNCHANGED <<d_data, log>>
             ELSE /\ d_data' = HandleErrors(d_data, UsbExc)
                  /\ epc' = AfterWith(UsbExc, FALSE)
                  /\ log' = Append(log, [vendor |-> "unread", raised |-> UsbExc.msg])
                  /\ UNCHANGED features
    /\ UNCHANGED <<devs, password, idx, results, closeCalls, pubkeyCalls>>

\* the rest of the with block
ClassifyDevice ==
    /\ epc = "classify"
    /\ \E fetchOk \in BOOLEAN :
          LET r == Classify(d_data, features, password, idx, fetchOk)
          IN  /\ d_data' = HandleErrors(r.d, r.exc)
              /\ pubkeyCalls' = pubkeyCalls + r.pubkey
              /\ epc' = AfterWith(r.exc, r.skip)
              /\ log' = Append(log,
                                [vendor |-> IF Contains(features.vendor, STMicroelectronics)
                                            THEN "match" ELSE "mismatch",
                                 raised |-> IF r.exc = NoExc THEN "none"
                                            ELSE r.exc.msg])
    /\ UNCHANGED <<devs, password, idx, client, features, results,
                   openTransports, closeCalls>>

\* (variant: client.close() is never called)
CloseClientMissing ==
    /\ epc = "close"
    /\ epc' = "append"
    /\ UNCHANGED <<devs, password, idx, d_data, client, features, results,
                   openTransports, closeCalls, pubkeyCalls, log>>

\* if client: client.close()
CloseClient ==
    /\ epc = "close"
    /\ IF client # None
       THEN /\ closeCalls' = closeCalls + 1
            /\ openTransports' = ClientClose(openTransports, client[1])
       ELSE UNCHANGED <<closeCalls, openTransports>>
    /\ epc' = "append"
    /\ UNCHANGED <<devs, password, idx, d_data, client, features, results,
                   pubkeyCalls, log>>

\* results.append(d_data)
AppendResult ==
    /\ epc = "append"
    /\ results' = Append(results, d_data)
    /\ epc' = "loop"
    /\ features' = NoFeatures
    /\ UNCHANGED <<devs, password, idx, d_data, client, openTransports,
                   closeCalls, pubkeyCalls, log>>

\* return results
Return ==
    /\ epc = "loop"
    /\ idx = Len(devs)
    /\ epc' = "done"
    /\ UNCHANGED <<devs, password, idx, d_data, client, features, results,
                   openTransports, closeCalls, pubkeyCalls, log>>

\* enumerate has not been called
EnumIdle ==
    /\ devs = <<>>
    /\ password = ""
    /\ idx = 0
    /\ epc = "idle"
    /\ d_data = NewRecord("")
    /\ client = None
    /\ features = NoFeatures
    /\ results = <<>>
    /\ openTransports = {}
    /\ closeCalls = 0
    /\ pubkeyCalls = 0
    /\ log = <<>>

(***************************************************************************)
(* A session on one handle: the thread that runs the session's calls, and  *)
(* a second thread that may call close() at any moment.                    *)
(***************************************************************************)
\* the session's thread calls open()
SessionOpen ==
    /\ Open
    /\ UNCHANGED sessVars

\* close() is called while no other call is running
SessionClose ==
    /\ closes < MaxCloses
    /\ Close
    /\ closes' = closes + 1
    /\ UNCHANGED <<closedInFlight, slept>>

\* the second thread calls close() while the session's thread is inside the
\* loop of read_chunk; the loop reads no field that close() sets
CloseInFlight ==
    /\ hpc = "reading"
    /\ closes < MaxCloses
    /\ LET r == CloseResult(readhandle, writehandle)
       IN  /\ readhandle' = r.rh
           /\ writehandle' = r.wh
    /\ closes' = closes + 1
    /\ closedInFlight' = TRUE
    /\ UNCHANGED <<config, kdriver, wire, nread, epWrites, lastEpWrite, ctrl,
                   host, overshoot, pieces, sawEmpty, hpc, chunk, rdBase,
                   nWrites, wquota, res, slept>>

\* the session's thread calls write_chunk
SessionWrite ==
    /\ WriteChunk
    /\ UNCHANGED sessVars

\* the session's thread calls read_chunk
SessionReadCall ==
    /\ ReadChunkCall
    /\ closedInFlight' = FALSE
    /\ slept' = 0
    /\ UNCHANGED closes

\* one pass of the loop of read_chunk in the session's thread; a pass that
\* does not end the loop ends in time.sleep(0.001)
SessionReadPass ==
    /\ ReadChunkStep
    /\ slept' = IF hpc' = "reading" THEN 1 - slept ELSE 0
    /\ UNCHANGED <<closes, closedInFlight>>

\* no session yet
SessionIdle ==
    /\ closes = 0
    /\ closedInFlight = FALSE
    /\ slept = 0

(***************************************************************************)
(* CDCACMTransport: enumerate(), the constructor, find_debug(), and the    *)
(* sessions of the transports writing their frames chunk by chunk.         *)
(***************************************************************************)
\* a device on the bus: does it have the vendor and product id of
\* DEV_STM32F4, and how many configurations does it have
Devices == [match : BOOLEAN, confs : 1..MaxConfs]

\* a layout with a second data interface for the debug link: interface 0
\* with endpoint 1, interface 1 with endpoint 2, then the communications
\* interface
DebugLayout == <<[cls |-> CLASS_DATA, eps |-> <<129, 1>>],
                 [cls |-> CLASS_DATA, eps |-> <<130, 2>>],
                 [cls |-> CLASS_COMM, eps |-> <<>>]>>

\* the values find_debug() may read in self.protocol.VERSION
ProtocolVersions == {1, 2}

\* usb.core.find(idVendor, idProduct), called without find_all: the first
\* device on the usbBus that matches, 0 (None) when there is none
RECURSIVE FindFrom(_, _)
FindFrom(b, i) ==
    IF i > Len(b) THEN 0
    ELSE IF b[i].match THEN i
    ELSE FindFrom(b, i + 1)

Find(b) == FindFrom(b, 1)

\* CDCACMHandle.__init__
NewHandle(device, debug) ==
    [device |-> device,
     interface |-> IF debug THEN DEBUG_INTERFACE ELSE INTERFACE,
     endpoint |-> IF debug THEN DEBUG_ENDPOINT ELSE ENDPOINT,
     count |-> 0,
     readhandle |-> None,
     writehandle |-> None]

\* CDCACMTransport.__init__(device, handle, debug): o holds the transports
\* and handles made so far; handle 0 stands for handle=None, and a new handle
\* is made; parent and via say which find_debug() call made the transport
\* (0 for none) and which VERSION it read
Construct(o, device, handle, debug, parent, via) ==
    LET h  == IF handle = 0 THEN Len(o.handles) + 1 ELSE handle
        hs == IF handle = 0 THEN Append(o.handles, NewHandle(device, debug))
              ELSE o.handles
    IN  [transports |-> Append(o.transports,
                               [device |-> device, handle |-> h, debug |-> debug,
                                parent |-> parent, via |-> via]),
         handles |-> hs]

\* [CDCACMTransport(d.device) for d in usbdevs]: iterating the device that
\* find() returned yields its configurations, n of them, and d.device is
\* that device
RECURSIVE TransportPerItem(_, _, _)
TransportPerItem(o, device, n) ==
    IF n = 0 THEN o
    ELSE Construct(TransportPerItem(o, device, n - 1), device, 0, FALSE, 0, 0)

\* CDCACMTransport.enumerate
EnumerateResult(b) ==
    LET usbdevs == Find(b)
        devices == [transports |-> <<>>, handles |-> <<>>]
    IN  IF usbdevs # 0 THEN TransportPerItem(devices, usbdevs, b[usbdevs].confs)
        ELSE devices

\* CDCACMTransport.find_debug on transport t, which reads VERSION v
FindDebugResult(o, t, v) ==
    IF v >= 2
    THEN Construct(o, o.transports[t].device, o.transports[t].handle, FALSE, t, v)
    ELSE Construct(o, o.transports[t].device, 0, TRUE, t, v)

\* CDCACMTransport.enumerate() is called
TransportEnumerate ==
    /\ tpc = "boot"
    /\ LET r == EnumerateResult(usbBus)
       IN  /\ transports' = r.transports
           /\ handles' = r.handles
           /\ framePos' = [t \in 1..Len(r.transports) |-> 0]
    /\ tpc' = "ready"
    /\ UNCHANGED <<usbBus, touched, sent>>

\* find_debug() is called on a transport that enumerate() returned
FindDebug ==
    /\ tpc = "ready"
    /\ Cardinality({t \in 1..Len(transports) : transports[t].parent # 0}) < MaxDebug
    /\ \E t \in 1..Len(transports), v \in ProtocolVersions :
          /\ transports[t].parent = 0
          /\ LET r == FindDebugResult([transports |-> transports, handles |-> handles],
                                      t, v)
             IN  /\ transports' = r.transports
                 /\ handles' = r.handles
          /\ framePos' = Append(framePos, 0)
    /\ UNCHANGED <<usbBus, touched, sent, tpc>>

\* open() is called on one of the handles
HandleOpen ==
    /\ \E h \in 1..Len(handles) :
          LET r == OpenResult(config, kdriver, handles[h].readhandle,
                              handles[h].writehandle, host)
          IN  /\ handles' = [handles EXCEPT ![h].readhandle = r.rh,
                                             ![h].writehandle = r.wh]
              /\ kdriver' = r.kd
              /\ ctrl' = IF r.ctrl = NoCtrl THEN ctrl ELSE r.ctrl
              /\ touched' = touched \cup {handles[h].device}
    /\ UNCHANGED <<usbBus, transports, sent, framePos, tpc>>

\* the session of a transport writes the next chunk of its frame with
\* write_chunk on the transport's handle; an error ends the frame
FrameWrite ==
    /\ \E t \in 1..Len(transports), accepted \in BOOLEAN :
          LET h == transports[t].handle
              o == WriteChunkOutcome(handles[h].writehandle, Pattern(t, ChunkSize))
          IN  /\ framePos[t] < FrameChunks
              /\ IF o = "write"
                 THEN /\ sent' = Append(sent, [t |-> t, h |-> h, n |-> framePos[t] + 1])
                      /\ touched' = touched \cup {handles[h].device}
                      /\ framePos' = [framePos EXCEPT
                                         ![t] = IF accepted THEN @ + 1 ELSE FrameChunks]
                 ELSE /\ framePos' = [framePos EXCEPT ![t] = FrameChunks]
                      /\ UNCHANGED <<sent, touched>>
    /\ UNCHANGED <<usbBus, transports, handles, tpc>>

\* no transport yet
TransportIdle ==
    /\ usbBus = <<>>
    /\ transports = <<>>
    /\ handles = <<>>
    /\ touched = {}
    /\ sent = <<>>
    /\ framePos = <<>>
    /\ tpc = "boot"

(***************************************************************************)
(* Specifications.                                                         *)
(***************************************************************************)
\* the calls on one CDCACMHandle
Init == Plugged /\ InitHandle /\ EnumIdle /\ SessionIdle /\ TransportIdle

Next ==
    \/ Open /\ UNCHANGED <<enumVars, sessVars, tVars>>
    \/ Close /\ UNCHANGED <<enumVars, sessVars, tVars>>
    \/ WriteChunk /\ UNCHANGED <<enumVars, sessVars, tVars>>
    \/ ReadChunkCall /\ UNCHANGED <<enumVars, sessVars, tVars>>
    \/ ReadChunkStep /\ UNCHANGED <<enumVars, sessVars, tVars>>

Spec == Init /\ [][Next]_vars

\* one call of enumerate; no handle is used from outside meanwhile
InitEnum ==
    /\ EnumIdle
    /\ SessionIdle
    /\ TransportIdle
    /\ InitHandle
    /\ config = StdConfig
    /\ host = GoodHost
    /\ kdriver = {}
    /\ wquota = 0

NextEnum ==
    \/ CallEnumerate /\ UNCHANGED <<chanVars, sessVars, tVars>>
    \/ NextDevice /\ UNCHANGED <<chanVars, sessVars, tVars>>
    \/ OpenClient /\ UNCHANGED <<chanVars, sessVars, tVars>>
    \/ ClassifyDevice /\ UNCHANGED <<chanVars, sessVars, tVars>>
    \/ CloseClient /\ UNCHANGED <<chanVars, sessVars, tVars>>
    \/ AppendResult /\ UNCHANGED <<chanVars, sessVars, tVars>>
    \/ Return /\ UNCHANGED <<chanVars, sessVars, tVars>>

SpecEnum == InitEnum /\ [][NextEnum]_vars

\* a session on the STM32F4 layout that writes at most SessionWrites chunks;
\* the thread inside read_chunk keeps running, so its loop keeps making passes
InitSession ==
    /\ InitHandle
    /\ EnumIdle
    /\ SessionIdle
    /\ TransportIdle
    /\ config = StdConfig
    /\ host = GoodHost
    /\ kdriver = {}
    /\ wquota = SessionWrites

NextSession ==
    \/ SessionOpen /\ UNCHANGED <<enumVars, tVars>>
    \/ SessionClose /\ UNCHANGED <<enumVars, tVars>>
    \/ CloseInFlight /\ UNCHANGED <<enumVars, tVars>>
    \/ SessionWrite /\ UNCHANGED <<enumVars, tVars>>
    \/ SessionReadCall /\ UNCHANGED <<enumVars, tVars>>
    \/ SessionReadPass /\ UNCHANGED <<enumVars, tVars>>

SpecSession ==
    /\ InitSession
    /\ [][NextSession]_vars
    /\ WF_vars(SessionReadPass /\ UNCHANGED <<enumVars, tVars>>)

\* the transports of one bus: the devices have the STM32F4 layout or the
\* layout with a debug link, with or without kernel drivers bound
InitTransport ==
    /\ InitHandle
    /\ EnumIdle
    /\ SessionIdle
    /\ usbBus \in SeqsUpTo(Devices, MaxBus)
    /\ transports = <<>>
    /\ handles = <<>>
    /\ touched = {}
    /\ sent = <<>>
    /\ framePos = <<>>
    /\ tpc = "boot"
    /\ config \in {StdConfig, DebugLayout}
    /\ host = GoodHost
    /\ kdriver \in {{}, CdcPositions(config)}
    /\ wquota = 0

NextTransport ==
    \/ TransportEnumerate /\ UNCHANGED <<chanVars, enumVars, sessVars>>
    \/ FindDebug /\ UNCHANGED <<chanVars, enumVars, sessVars>>
    \/ HandleOpen
          /\ UNCHANGED <<config, wire, nread, epWrites, lastEpWrite, host,
                         overshoot, pieces, sawEmpty, readhandle, writehandle,
                         hpc, chunk, rdBase, nWrites, wquota, res>>
          /\ UNCHANGED <<enumVars, sessVars>>
    \/ FrameWrite /\ UNCHANGED <<chanVars, enumVars, sessVars>>

SpecTransport == InitTransport /\ [][NextTransport]_vars

(***************************************************************************)
(* Properties of CDCACMHandle.                                             *)
(***************************************************************************)
Errors == {"AssertionError", "TransportException", "USBError", "IOError"}

\* C1: every write_chunk call whose argument is not 64 bytes long ends in an
\* error and makes no write() on the OUT endpoint, the error being the
\* framing error (TransportException) whenever the handle has its write
\* endpoint; a call with 64 bytes on such a handle makes exactly one write()
\* on the OUT endpoint, of exactly those bytes, and ends with that write's
\* outcome (nothing is retried).
C1_WriteChunkContract ==
    [][nWrites' = nWrites + 1 =>
          /\ res'.op = "write_chunk"
          /\ Len(res'.arg) # ChunkSize =>
                /\ res'.status \in Errors
                /\ writehandle # None => res'.status = "TransportException"
                /\ epWrites' = epWrites
                /\ wire' = wire
          /\ (Len(res'.arg) = ChunkSize /\ writehandle # None) =>
                /\ epWrites' = epWrites + 1
                /\ lastEpWrite' = res'.arg
                /\ res'.status \in {"ok", "USBError"}
                /\ wire' = IF res'.status = "ok" THEN Append(wire, res'.arg) ELSE wire
    ]_vars

\* a 64-byte chunk was written and then a chunk of another length was refused
C1_Witness ==
    /\ res.op = "write_chunk"
    /\ Len(res.arg) # ChunkSize
    /\ res.status = "TransportException"
    /\ epWrites = 1
    /\ Len(lastEpWrite) = ChunkSize

\* C2: a read_chunk that returns, returns exactly 64 bytes, and they are the
\* in-order concatenation of the pieces the IN endpoint handed out during the
\* call (the bytes rdBase+1 .. nread of the device's stream); when the reads
\* are in step with the writes this is the chunk that was written.
C2_ReadChunkAssembles ==
    (res.op = "read_chunk" /\ res.status = "ok") =>
        /\ Len(res.value) = ChunkSize
        /\ nread = rdBase + ChunkSize
        /\ res.value = SubSeq(Flatten(wire), rdBase + 1, nread)
        /\ rdBase % ChunkSize = 0 => res.value = wire[(rdBase \div ChunkSize) + 1]

\* a chunk came back identical through the loopback, assembled from several
\* pieces with an empty piece among them
C2_Witness ==
    /\ res.op = "read_chunk"
    /\ res.status = "ok"
    /\ pieces = 2
    /\ sawEmpty
    /\ rdBase = 0
    /\ res.value = wire[1]

\* C3: once a read() has returned more bytes than were still needed, the
\* read_chunk has ended, with the framing error (TransportException): it
\* returns no chunk.
C3_OvershootRaises ==
    (res.op = "read_chunk" /\ overshoot) =>
        /\ hpc = "idle"
        /\ res.status = "TransportException"
        /\ res.value = <<>>

\* a read() overshot after part of the chunk had been collected
C3_Witness ==
    /\ res.op = "read_chunk"
    /\ overshoot
    /\ pieces = 2
    /\ res.status = "TransportException"

\* the expected class layout is incomplete: no communications interface, no
\* data interface, or a data interface without an IN or without an OUT endpoint
LayoutIncomplete(cfg) ==
    \/ ~HasClass(cfg, CLASS_COMM)
    \/ ~HasClass(cfg, CLASS_DATA)
    \/ LET eps == cfg[FirstOfClass(cfg, CLASS_DATA, 1)].eps
       IN  \/ \A j \in 1..Len(eps) : endpoint_direction(eps[j]) # ENDPOINT_IN
           \/ \A j \in 1..Len(eps) : endpoint_direction(eps[j]) = ENDPOINT_IN

\* C10: open() on a configuration that lacks the communications interface,
\* the data interface, the IN endpoint or the OUT endpoint ends in an error.
C10_OpenFailsOnIncompleteLayout ==
    (res.op = "open" /\ LayoutIncomplete(config)) => res.status \in Errors

\* a detach_kernel_driver of open() fails on this host: the driver is still
\* bound to the first communications or data interface
DetachBlocked ==
    LET ci == FirstOfClass(config, CLASS_COMM, 1)
        di == FirstOfClass(config, CLASS_DATA, 1)
    IN  \/ ci # 0 /\ ci \in kdriver /\ ~host.ctlDetach
        \/ di # 0 /\ di \in kdriver /\ ~host.dataDetach

\* interface and endpoint discovery of open() succeeds: no detach fails and
\* the first data interface has an IN and an OUT endpoint
Discovered ==
    /\ ~DetachBlocked
    /\ HasClass(config, CLASS_DATA)
    /\ LET eps == config[FirstOfClass(config, CLASS_DATA, 1)].eps
       IN  /\ \E j \in 1..Len(eps) : endpoint_direction(eps[j]) = ENDPOINT_IN
           /\ \E j \in 1..Len(eps) : endpoint_direction(eps[j]) # ENDPOINT_IN

\* C11: whenever discovery succeeded, open() ends without error whether the
\* line-state or the line-coding control transfer succeeds or fails, and
\* leaves both the read and the write endpoint assigned, so that a later
\* read_chunk passes its assertion and goes on to read, and a later
\* write_chunk of 64 bytes goes on to write.
C11_CtrlFailureSwallowed ==
    [][/\ (res'.op = "open" /\ Discovered') =>
             /\ res'.status = "ok"
             /\ ctrl'.outcome = host.xfer
             /\ readhandle' # None
             /\ writehandle' # None
             /\ \A d \in Data : Len(d) = ChunkSize =>
                                   WriteChunkOutcome(writehandle', d) = "write"
       /\ (res.op = "open" /\ Discovered /\ res'.op = "read_chunk") =>
             res'.status = "pending"
    ]_vars

\* open() was called on a host whose line-coding transfer fails, and the
\* read_chunk that followed went on to read from the IN endpoint
C11_Witness ==
    /\ host.xfer = "line_coding_failed"
    /\ ctrl.outcome = "line_coding_failed"
    /\ res.op = "read_chunk"
    /\ res.status = "pending"
    /\ hpc = "reading"

\* the handle was opened: open() has assigned both endpoints
Opened == readhandle # None /\ writehandle # None

\* C13: when close() returns on an opened handle, the handle holds neither a
\* read nor a write endpoint, and a write_chunk or read_chunk that follows
\* close() makes no transfer: no write() on the OUT endpoint, no read() on
\* the IN endpoint.
C13_CloseReleases ==
    [][/\ (Opened /\ res'.op = "close") =>
             (readhandle' = None /\ writehandle' = None)
       /\ (res.op = "close" /\ res'.op = "write_chunk") => epWrites' = epWrites
       /\ (res.op = "close" /\ res'.op = "read_chunk") => hpc' = "idle"
    ]_vars

\* C20: an open() that fails leaves neither a read nor a write endpoint
\* assigned, so that the read_chunk that follows it does not get to read()
\* on the IN endpoint; the endpoints of a handle change only in an open()
\* that succeeds.
C20_OpenAllOrNothing ==
    [][/\ (res'.op = "open" /\ res'.status # "ok") =>
             (readhandle' = None /\ writehandle' = None)
       /\ (readhandle' # readhandle \/ writehandle' # writehandle) =>
             (res'.op = "open" /\ res'.status = "ok")
       /\ (res.op = "open" /\ res.status # "ok" /\ res'.op = "read_chunk") =>
             hpc' = "idle"
    ]_vars

(***************************************************************************)
(* Properties of enumerate.                                                *)
(***************************************************************************)
\* the transport with number k is not filtered out: its vendor id is accepted
\* and it did not report a vendor string without the manufacturer token
Kept(k) == devs[k].vid \in {1155, -1} /\ log[k].vendor # "mismatch"

\* the place in results of the record of the transport with number k
RecordIndex(k) == Cardinality({j \in 1..k : Kept(j)})

\* the features were read, the manufacturer token is in the vendor string
Probed == epc \in {"close", "append"} /\ Contains(features.vendor, STMicroelectronics)

PinLocked == features.pin_protection /\ ~features.pin_cached

\* C4: whenever enumerate goes on to the next transport or returns, every
\* transport it opened has been closed.
C4_TransportClosedOnEveryExit ==
    epc \in {"loop", "done"} => openTransports = {}

\* C5: for a device with pin_protection and without pin_cached,
\* get_pubkey_at_path is never called, and once its vendor string has passed
\* the probe ends with the "locked" DeviceNotReadyError in its record and no
\* fingerprint, whatever passphrase_protection, initialized and the password.
C5_PinLockedStopsBeforeFingerprint ==
    PinLocked =>
        /\ pubkeyCalls = 0
        /\ Probed =>
              /\ d_data.error = LockedExc.msg
              /\ d_data.code = "DEVICE_NOT_READY"
              /\ d_data.needs_pin_sent
              /\ "fingerprint" \notin DOMAIN d_data

\* a PIN-locked device with passphrase protection, initialized, probed with a
\* passphrase
C5_Witness ==
    /\ Probed
    /\ PinLocked
    /\ features.passphrase_protection
    /\ features.initialized
    /\ password # ""
    /\ d_data.error = LockedExc.msg

\* C6: for a probed device that is not PIN-locked: with passphrase_protection
\* and no passphrase the probe ends with the "passphrase" DeviceNotReadyError
\* and get_pubkey_at_path is not called; with a non-empty passphrase and
\* initialized, get_pubkey_at_path is called once and, when it answers, the
\* record has a fingerprint, needs_passphrase_sent = false and no error.
C6_PassphraseRule ==
    (Probed /\ ~PinLocked) =>
        /\ (features.passphrase_protection /\ password = "") =>
              /\ d_data.error = PassphraseExc.msg
              /\ d_data.code = "DEVICE_NOT_READY"
              /\ pubkeyCalls = 0
              /\ "fingerprint" \notin DOMAIN d_data
        /\ (password # "" /\ features.initialized) =>
              /\ pubkeyCalls = 1
              /\ log[idx].raised = "none" =>
                    /\ "fingerprint" \in DOMAIN d_data
                    /\ d_data.fingerprint = <<"fingerprint", idx, password>>
                    /\ d_data.needs_passphrase_sent = FALSE
                    /\ "error" \notin DOMAIN d_data

\* a passphrase-protected, initialized device probed with a passphrase got
\* its fingerprint
C6_Witness ==
    /\ Probed
    /\ ~PinLocked
    /\ features.passphrase_protection
    /\ features.initialized
    /\ password # ""
    /\ "fingerprint" \in DOMAIN d_data
    /\ d_data.needs_passphrase_sent = FALSE

\* C7: a probed device that is not initialized, not PIN-locked and not
\* lacking its passphrase gets a record with error "Not initialized" and the
\* code DEVICE_NOT_INITIALIZED and without fingerprint, get_pubkey_at_path is
\* not called, and client.close() is called exactly once before the record
\* is appended.
C7_NotInitialized ==
    (Probed /\ ~features.initialized /\ ~PinLocked
        /\ ~(features.passphrase_protection /\ password = "")) =>
        /\ d_data.error = "Not initialized"
        /\ d_data.code = "DEVICE_NOT_INITIALIZED"
        /\ "fingerprint" \notin DOMAIN d_data
        /\ pubkeyCalls = 0
        /\ closeCalls = (IF epc = "append" THEN 1 ELSE 0)
        /\ epc = "append" => idx \notin openTransports

\* the record of an uninitialized device is about to be appended
C7_Witness ==
    /\ epc = "append"
    /\ Contains(features.vendor, STMicroelectronics)
    /\ ~features.initialized
    /\ d_data.error = "Not initialized"
    /\ closeCalls = 1

\* C8: between two devices and at the end, results holds exactly the records
\* of the transports taken so far that were not filtered out, in their
\* order: a device whose vendor string lacks the manufacturer token has no
\* record, and no error is raised for it.
C8_VendorMismatchExcluded ==
    epc \in {"loop", "done"} =>
        /\ Len(log) = idx
        /\ Len(results) = RecordIndex(idx)
        /\ \A k \in 1..idx :
              Kept(k) => results[RecordIndex(k)].path = PathOf(k)

\* enumerate returned an empty result for one device, whose vendor string
\* lacks the token
C8_Witness ==
    /\ epc = "done"
    /\ Len(devs) = 1
    /\ log[1].vendor = "mismatch"
    /\ results = <<>>

\* C9: enumerate never ends with an exception; what is raised while one
\* device is probed ends up as error and code in that device's record, and
\* enumerate returns only after it has taken every transport.
C9_BadDeviceDoesNotAbortScan ==
    /\ epc # "raised"
    /\ epc \in {"loop", "done"} =>
          \A k \in 1..Len(log) :
             log[k].raised # "none" =>
                /\ Kept(k)
                /\ results[RecordIndex(k)].path = PathOf(k)
                /\ results[RecordIndex(k)].error = log[k].raised
                /\ "code" \in DOMAIN results[RecordIndex(k)]
    /\ epc = "done" => (idx = Len(devs) /\ Len(log) = Len(devs))

\* the first device failed on USB, the second was probed and fingerprinted
C9_Witness ==
    /\ epc = "done"
    /\ Len(devs) = 2
    /\ log[1].raised = UsbExc.msg
    /\ Len(results) = 2
    /\ "error" \in DOMAIN results[1]
    /\ "fingerprint" \in DOMAIN results[2]

\* the keys of a record
Has(r, key) == key \in DOMAIN r

\* C19: every record in results has type, model and path; error and code
\* come together; no record has both a fingerprint and an error; a record
\* with a fingerprint has needs_pin_sent and needs_passphrase_sent false.
\* And the record of the current pass, once the with block is left, has a
\* fingerprint exactly on success (the features were read, nothing was
\* raised, the device is initialized) and an error exactly when something was
\* raised or the device is not initialized.
C19_RecordShape ==
    /\ \A j \in 1..Len(results) :
          LET r == results[j]
          IN  /\ Has(r, "type") /\ Has(r, "model") /\ Has(r, "path")
              /\ Has(r, "error") <=> Has(r, "code")
              /\ ~(Has(r, "fingerprint") /\ Has(r, "error"))
              /\ Has(r, "fingerprint") =>
                    /\ r.needs_pin_sent = FALSE
                    /\ r.needs_passphrase_sent = FALSE
    /\ epc \in {"close", "append"} =>
          LET l == log[idx]
          IN  /\ Has(d_data, "fingerprint") <=>
                    (l.vendor = "match" /\ l.raised = "none" /\ features.initialized)
              /\ Has(d_data, "error") <=>
                    (l.raised # "none" \/ ~features.initialized)
              /\ idx = Len(log)
    /\ epc = "loop" /\ idx > 0 /\ Kept(idx) => results[Len(results)] = d_data

\* enumerate returned a record with a fingerprint and the record of a device that
\* is not initialized
C19_Witness ==
    /\ epc = "done"
    /\ Len(results) = 2
    /\ Has(results[1], "fingerprint")
    /\ Has(results[2], "error")
    /\ results[2].code = "DEVICE_NOT_INITIALIZED"

(***************************************************************************)
(* Properties of a session that may be closed from outside.                *)
(***************************************************************************)
\* C12: close() never fails, whether the handle was never opened, is opened
\* or was closed before; and a close() that directly follows a close()
\* leaves the handle and the device as they were: the endpoints it holds,
\* the detached kernel drivers and the line settings do not change again, so
\* nothing is released twice.
C12_CloseIdempotent ==
    [][(closes' = closes + 1 /\ hpc = "idle") =>
          /\ res'.op = "close"
          /\ res'.status = "ok"
          /\ res.op = "close" =>
                <<readhandle, writehandle, kdriver, ctrl>>' =
                    <<readhandle, writehandle, kdriver, ctrl>>
    ]_vars

\* close() was called a second time on a handle that open() had opened
C12_Witness ==
    /\ closes = 2
    /\ res.op = "close"
    /\ res.status = "ok"
    /\ Opened
    /\ ~closedInFlight

\* C17: a read_chunk that is in its loop when close() is called comes to an
\* end (by the claim: with the error of a closed channel).
C17_CloseUnblocksRead ==
    (hpc = "reading" /\ closedInFlight) ~> (hpc = "idle")

\* C18: every read_chunk call comes to an end: it returns its 64 bytes or
\* ends with an error, whatever the IN endpoint hands out.
C18_ReadChunkEnds ==
    (hpc = "reading") ~> (hpc = "idle")

(***************************************************************************)
(* Properties of CDCACMTransport.                                          *)
(***************************************************************************)
\* the handle holds the IN and the OUT endpoint with this number on this
\* interface
OnPair(h, interface, endpoint) ==
    /\ h.readhandle = <<interface, endpoint + ENDPOINT_IN>>
    /\ h.writehandle = <<interface, endpoint>>

\* C14: a transport that find_debug() made after reading a version of 2 or
\* more shares the handle of the transport it was made from and is marked as
\* debug; one made after reading version 1 has a handle of its own, and
\* once that handle is opened it holds the endpoints of the debug interface
\* and endpoint pair, none of them an endpoint the main transport's handle
\* holds.
C14_FindDebug ==
    \A t \in 1..Len(transports) :
        LET d == transports[t]
        IN  d.parent # 0 =>
              LET dh == handles[d.handle]
                  mh == handles[transports[d.parent].handle]
              IN  /\ d.via >= 2 =>
                        /\ d.handle = transports[d.parent].handle
                        /\ d.debug
                  /\ d.via = 1 =>
                        /\ d.handle # transports[d.parent].handle
                        /\ (dh.readhandle # None /\ dh.writehandle # None) =>
                              /\ OnPair(dh, DEBUG_INTERFACE, DEBUG_ENDPOINT)
                              /\ dh.readhandle # mh.readhandle
                              /\ dh.writehandle # mh.writehandle

\* the devices on the bus with the vendor and product id looked for
Matching == {i \in 1..Len(usbBus) : usbBus[i].match}

\* C15: enumerate() returns one transport for each matching device on the
\* bus, none when there is none, and making them touches no device: the
\* handles have no endpoints yet, no kernel driver is detached, no control
\* transfer and no write is made.
C15_EnumerateOnePerDevice ==
    [][(tpc = "boot" /\ tpc' = "ready") =>
          /\ Len(transports') = Cardinality(Matching)
          /\ \A i \in Matching :
                Cardinality({t \in 1..Len(transports') : transports'[t].device = i}) = 1
          /\ \A t \in 1..Len(transports') :
                /\ handles'[transports'[t].handle].readhandle = None
                /\ handles'[transports'[t].handle].writehandle = None
          /\ touched' = {}
          /\ kdriver' = kdriver
          /\ ctrl' = ctrl
          /\ sent' = <<>>
    ]_vars

\* C16: on a handle that two transports share, the chunks of one
\* transport's frame are written without a chunk of the other transport in
\* between.
C16_SharedChannelSerialized ==
    \A i, j, k \in 1..Len(sent) :
        (i < j /\ j < k /\ sent[i].t = sent[k].t /\ sent[j].h = sent[i].h) =>
            sent[j].t = sent[i].t
====
